---- MODULE Spec2Model ----
(***************************************************************************)
(* A model of the export core of io_scene_psk_psa:                         *)
(*   - shared/helpers.py  get_export_bone_names            (bone selector) *)
(*   - shared/helpers.py  convert_blender_bones_to_psx_bones (transformer) *)
(*   - psk/exporter.py    export_psk, _write_section         (PSK writer)  *)
(*   - shared/helpers.py  populate_bone_collection_list   (export dialog) *)
(*   - psk/exporter.py    populate_material_list and the material list     *)
(*                        move operators                  (export dialog)  *)
(* Each behaviour is one call of one of the first three functions (Init    *)
(* draws the function and its arguments, the actions are the steps of its  *)
(* body), or a session of the export dialog, in which the functions of the *)
(* dialog are called again and again on a scene that is edited in between. *)
(***************************************************************************)
EXTENDS Integers, Sequences, FiniteSets

VARIABLES
    call,                       \* the function this behaviour executes
    pc,                         \* position inside that function
    armature,                   \* armature_object.data: [parent, collections, names, collections_all]
    bone_filter_mode,           \* argument of get_export_bone_names
    bone_collection_indices,    \* argument of get_export_bone_names
    bone_index_stack,           \* helpers.py:96   list of (bone_index, instigator_bone_index)
    bone_indices,               \* helpers.py:112  dict bone_index -> instigator, in insertion order
    bones,                      \* argument of convert_blender_bones_to_psx_bones: a list of bones
    export_space,               \* argument of convert_blender_bones_to_psx_bones
    psx_bones,                  \* helpers.py:181  the bones converted so far
    psk,                        \* argument of export_psk: the lists of a Psk
    file,                       \* what is stored at the path given to export_psk
    section,                    \* the _write_section call in progress (0: none)
    cursor,                     \* how much of that section's data is written
    wedges,                     \* exporter.py:46  the re-encoded wedges
    root_bone_names,            \* helpers.py:139  the root bones the diagnostic goes through
    root_cursor,                \* helpers.py:140  how many of them are done
    bone_name,                  \* helpers.py:141  where the walk along the instigators is
    console,                    \* helpers.py:147  what was printed: <<root_bone_name, bone_name>>
    bone_collection_list,       \* helpers.py:32   the list populate_bone_collection_list fills
    material_list,              \* exporter.py:255  pg.material_list
    material_list_index,        \* exporter.py:256  pg.material_list_index
    result                      \* what the call returned or raised

diagVars == <<root_bone_names, root_cursor, bone_name, console>>

selectVars == <<bone_filter_mode, bone_collection_indices, bone_index_stack, bone_indices,
                diagVars>>

convertVars == <<bones, export_space, psx_bones>>

writerVars == <<psk, file, section, cursor, wedges>>

dialogVars == <<bone_collection_list, material_list, material_list_index>>

vars == <<call, pc, armature, selectVars, convertVars, writerVars, dialogVars, result>>

----------------------------------------------------------------------------
(* Bounds of the model.                                                    *)

\* The largest number of bones of an armature.
MaxBones == 3

----------------------------------------------------------------------------
(* Python values.                                                          *)

\* Python's None where the code stores a bone index or nothing.
None == -1

\* list.index(x) as a 0-based position; NotFound stands for the ValueError.
NotFound == -2

Min(S) == CHOOSE x \in S : \A y \in S : x <= y

\* seq.index(x): the first 0-based position holding x.
ListIndex(seq, x) ==
    IF \E i \in 1..Len(seq) : seq[i] = x
    THEN Min({i \in 1..Len(seq) : seq[i] = x}) - 1
    ELSE NotFound

\* seq[i] with Python's 0-based i.
At(seq, i) == seq[i + 1]

Range(seq) == {seq[i] : i \in 1..Len(seq)}

\* A Python int can exceed the 32 bits of TLC's integers (the
\* point limit is 2^32): lengths and byte counts are kept as two limbs,
\* hi * Limb + lo with 0 <= lo < Limb.
Limb == 65536

BigOf(n) == [hi |-> n \div Limb, lo |-> n % Limb]

BigAdd(a, b) ==
    [hi |-> a.hi + b.hi + ((a.lo + b.lo) \div Limb), lo |-> (a.lo + b.lo) % Limb]

\* a * k for a small k
BigMul(a, k) ==
    [hi |-> (a.hi * k) + ((a.lo * k) \div Limb), lo |-> (a.lo * k) % Limb]

\* a > b
BigGt(a, b) == a.hi > b.hi \/ (a.hi = b.hi /\ a.lo > b.lo)

\* A list is kept as runs of equal elements, [datum, count]: its length can be
\* at a ceiling of the format without the model holding that many elements.
RECURSIVE ListLen(_)
ListLen(runs) ==
    IF runs = <<>> THEN BigOf(0)
    ELSE BigAdd(runs[1].count, ListLen(Tail(runs)))

----------------------------------------------------------------------------
(* The armature read interface: bones in armature order, each with a       *)
(* name, a parent (bone index or None) and the collections it is in.       *)

BoneNameTable == <<"root", "mid", "tip", "toe", "claw">>

NumBones(arm) == Len(arm.parent)

BoneIdx(arm) == 0..(NumBones(arm) - 1)

\* bone.parent as a bone index (None for a root bone).
ParentOf(arm, b) == At(arm.parent, b)

\* armature.bones lists the bones depth first, so a bone's parent comes
\* before it: the parent relation is a forest.
ParentSeqs(n) ==
    {par \in [1..n -> {None} \cup 0..(n - 1)] : \A i \in 1..n : par[i] < i - 1}

\* armature.collections_all of the armatures of the model.
CollectionsAll == <<"Body", "Face">>

Armatures ==
    UNION {
        { [parent |-> par,
           collections |-> cols,
           names |-> SubSeq(BoneNameTable, 1, n),
           collections_all |-> CollectionsAll] :
             par \in ParentSeqs(n),
             cols \in [1..n -> SUBSET Range(CollectionsAll)] }
        : n \in 0..MaxBones }

BoneFilterModes == {"ALL", "BONE_COLLECTIONS", "BONE_GROUPS"}

----------------------------------------------------------------------------
(* The Psk container, exporter.py:30: six lists.  Only a wedge's            *)
(* point_index is read by the writer; every other element is written as    *)
(* it is, and is kept by its type alone.                                   *)

\* The largest number of runs of a wedge list of the model.
MaxWedgeRuns == 2

\* A list of count elements of a type (count is a two-limb number).
ListOf(type, count) ==
    IF count = BigOf(0) THEN <<>> ELSE <<[datum |-> [type |-> type], count |-> count]>>

\* Lengths around the ceilings of the format.
PointCounts ==
    {BigOf(0), BigOf(1), BigOf(65537),
     [hi |-> 32768, lo |-> 0],      \* 2^31
     [hi |-> 65536, lo |-> 0],      \* 2^32
     [hi |-> 65536, lo |-> 1]}      \* 2^32 + 1

MaterialCounts == {BigOf(0), BigOf(1), BigOf(256), BigOf(257)}

BoneCounts == {BigOf(0), BigOf(1), BigOf(256), BigOf(257)}

FaceCounts == {BigOf(0), BigOf(1)}

WeightCounts == {BigOf(0), BigOf(1)}

\* A run of wedges that share a point_index.
WedgeRuns ==
    { [datum |-> [type |-> "Wedge", point_index |-> p], count |-> c] :
        p \in {0, 65535, 65536}, c \in {BigOf(1), BigOf(65536)} }

WedgeLists == UNION { [1..k -> WedgeRuns] : k \in 0..MaxWedgeRuns }

Psks ==
    { [points |-> ListOf("Vector3", np),
       wedges |-> ws,
       faces |-> ListOf("Face", nf),
       materials |-> ListOf("Material", nm),
       bones |-> ListOf("Bone", nb),
       weights |-> ListOf("Weight", nw)] :
         np \in PointCounts, ws \in WedgeLists, nf \in FaceCounts,
         nm \in MaterialCounts, nb \in BoneCounts, nw \in WeightCounts }

EmptyPsk ==
    [points |-> <<>>, wedges |-> <<>>, faces |-> <<>>, materials |-> <<>>,
     bones |-> <<>>, weights |-> <<>>]

\* The path holds no file, or a file written earlier.
NoFile == [exists |-> FALSE, content |-> <<>>]

OldFile == [exists |-> TRUE, content |-> <<[kind |-> "old"]>>]

----------------------------------------------------------------------------
(* get_export_bone_names, helpers.py:77-155                                *)

\* helpers.py:102  set(bone_collections.index(x) for x in bone.collections)
ThisBoneCollectionIndices(arm, b) ==
    {ListIndex(arm.collections_all, c) : c \in At(arm.collections, b)}

\* A slip: the unassigned bucket forgotten.
IsSeed_NoUnassigned(arm, mode, indices, b) ==
    \/ mode = "ALL"
    \/ (indices \cap {ListIndex(arm.collections_all, c) : c \in At(arm.collections, b)}) # {}

\* helpers.py:105-107  the condition under which a bone is pushed as a seed.
IsSeed(arm, mode, indices, b) ==
    \/ mode = "ALL"
    \/ (At(arm.collections, b) = {} /\ -1 \in indices)
    \/ (indices \cap ThisBoneCollectionIndices(arm, b)) # {}

\* helpers.py:100-108  the seeds in armature order, each with instigator None.
RECURSIVE SeedStack(_, _, _, _)
SeedStack(arm, mode, indices, k) ==
    IF k = 0 THEN <<>>
    ELSE LET rest == SeedStack(arm, mode, indices, k - 1)
         IN IF IsSeed(arm, mode, indices, k - 1)
            THEN Append(rest, <<k - 1, None>>)
            ELSE rest

\* key in dict
DictHas(d, k) == \E i \in 1..Len(d) : d[i][1] = k

\* dict[k] = v: an existing key keeps its place, a new key goes last.
DictSet(d, k, v) ==
    IF DictHas(d, k)
    THEN [i \in 1..Len(d) |-> IF d[i][1] = k THEN <<k, v>> ELSE d[i]]
    ELSE Append(d, <<k, v>>)

DictKeys(d) == {d[i][1] : i \in 1..Len(d)}

\* A slip: the sort left out, the items staying in insertion order.
SortedItems_Unsorted(d) == d

\* helpers.py:123-124  the items of the dict sorted by bone index: the keys
\* of a dict are distinct, so the k-th item is the one with k - 1 smaller keys.
SortedItems(d) ==
    [k \in 1..Len(d) |->
        CHOOSE item \in Range(d) :
            Cardinality({key \in DictKeys(d) : key < item[1]}) = k - 1]

\* helpers.py:131  bone_names = [bones[x[0]].name for x in bone_indices]
ExportBoneNames(arm, items) == [i \in 1..Len(items) |-> At(arm.names, items[i][1])]

\* None where the code stores a name or a named object, or nothing (Blender
\* gives every bone and every material a name that is not empty).
NoName == ""

\* A slip: x[0] for x[1], the bone's own name as its instigator's.
InstigatorBoneNames_OwnName(arm, items) ==
    [i \in 1..Len(items) |->
        IF items[i][2] = None THEN NoName ELSE At(arm.names, items[i][1])]

\* helpers.py:130  the instigator's name, or None
InstigatorBoneNames(arm, items) ==
    [i \in 1..Len(items) |->
        IF items[i][2] = None THEN NoName ELSE At(arm.names, items[i][2])]

\* A slip: the filter inverted, keeping the bones that have a parent.
RootBones_Inverted(arm, items) ==
    SelectSeq([i \in 1..Len(items) |-> items[i][1]],
              LAMBDA b : ParentOf(arm, b) # None)

\* helpers.py:135  the exported bones that have no parent.
RootBones(arm, items) ==
    SelectSeq([i \in 1..Len(items) |-> items[i][1]],
              LAMBDA b : ParentOf(arm, b) = None)

InitSelect ==
    /\ call = "get_export_bone_names"
    /\ pc = "seeds"
    /\ armature \in Armatures
    /\ bone_filter_mode \in BoneFilterModes
    /\ bone_collection_indices \in SUBSET (-1..(Len(CollectionsAll) - 1))
    /\ bone_index_stack = <<>>
    /\ bone_indices = <<>>
    /\ bones = <<>> /\ export_space = "WORLD" /\ psx_bones = <<>>
    /\ psk = EmptyPsk /\ file = NoFile /\ section = 0 /\ cursor = 0 /\ wedges = <<>>
    /\ root_bone_names = <<>> /\ root_cursor = 0 /\ bone_name = "" /\ console = <<>>
    /\ bone_collection_list = <<>> /\ material_list = <<>> /\ material_list_index = 0
    /\ result = [kind |-> "running"]

\* helpers.py:95-108
CollectSeeds ==
    /\ call = "get_export_bone_names" /\ pc = "seeds"
    /\ bone_index_stack' = SeedStack(armature, bone_filter_mode,
                                     bone_collection_indices, NumBones(armature))
    /\ pc' = "closure"
    /\ UNCHANGED <<call, armature, bone_filter_mode, bone_collection_indices,
                   bone_indices, diagVars, convertVars, writerVars, dialogVars, result>>

\* A slip: the membership test inverted, so a new parent is never pushed.
PushParent_Inverted(popped, d, arm, bone_index) ==
    LET parent == ParentOf(arm, bone_index)
        parent_bone_index == ListIndex(arm.names, At(arm.names, parent))
    IN IF parent # None /\ DictHas(d, parent_bone_index)
       THEN Append(popped, <<parent_bone_index, bone_index>>)
       ELSE popped

\* helpers.py:116-119  the stack after the pop: the parent is pushed, with the
\* popped bone as its instigator, unless it is already in bone_indices.
PushParent(popped, d, arm, bone_index) ==
    LET parent == ParentOf(arm, bone_index)
        parent_bone_index == ListIndex(arm.names, At(arm.names, parent))
    IN IF parent # None /\ ~DictHas(d, parent_bone_index)
       THEN Append(popped, <<parent_bone_index, bone_index>>)
       ELSE popped

\* helpers.py:113-120  one iteration of the while loop.
ClosureStep ==
    /\ call = "get_export_bone_names" /\ pc = "closure"
    /\ Len(bone_index_stack) > 0
    /\ LET top == bone_index_stack[Len(bone_index_stack)]
           popped == SubSeq(bone_index_stack, 1, Len(bone_index_stack) - 1)
           bone_index == top[1]
           instigator_bone_index == top[2]
       IN /\ bone_index_stack' = PushParent(popped, bone_indices, armature, bone_index)
          /\ bone_indices' = DictSet(bone_indices, bone_index, instigator_bone_index)
    /\ UNCHANGED <<call, pc, armature, bone_filter_mode, bone_collection_indices,
                   diagVars, convertVars, writerVars, dialogVars, result>>

\* helpers.py:122-141,155  sort, split out the names, check for a single
\* root: return the names, or enter the diagnostic at its first root bone.
SortAndReturn ==
    /\ call = "get_export_bone_names" /\ pc = "closure"
    /\ Len(bone_index_stack) = 0
    /\ LET items == SortedItems(bone_indices)
           root_bones == RootBones(armature, items)
       IN /\ bone_indices' = items
          /\ IF Len(root_bones) > 1
             THEN /\ root_bone_names' =
                        [i \in 1..Len(root_bones) |-> At(armature.names, root_bones[i])]
                  /\ root_cursor' = 0
                  /\ bone_name' = At(armature.names, root_bones[1])
                  /\ pc' = "diagnose"
                  /\ UNCHANGED result
             ELSE /\ result' = [kind |-> "return",
                                bone_names |-> ExportBoneNames(armature, items)]
                  /\ pc' = "done"
                  /\ UNCHANGED <<root_bone_names, root_cursor, bone_name>>
    /\ UNCHANGED <<call, armature, bone_filter_mode, bone_collection_indices,
                   bone_index_stack, console, convertVars, writerVars, dialogVars>>

\* helpers.py:142-149  one iteration of the while True loop of the
\* diagnostic: look up the instigator of bone_name; with none, print the
\* line of this root bone and go on to the next root bone, otherwise step to
\* the instigator.  list.index raises ValueError for a name not exported.
DiagnoseStep ==
    /\ call = "get_export_bone_names" /\ pc = "diagnose"
    /\ root_cursor < Len(root_bone_names)
    /\ LET bone_names == ExportBoneNames(armature, bone_indices)
           instigator_bone_names == InstigatorBoneNames(armature, bone_indices)
           root_bone_name == At(root_bone_names, root_cursor)
           position == ListIndex(bone_names, bone_name)
       IN IF position = NotFound
          THEN /\ result' = [kind |-> "ValueError"]
               /\ pc' = "done"
               /\ UNCHANGED <<root_cursor, bone_name, console>>
          ELSE LET instigator_bone_name == At(instigator_bone_names, position)
               IN IF instigator_bone_name = NoName
                  THEN /\ console' = Append(console, <<root_bone_name, bone_name>>)
                       /\ root_cursor' = root_cursor + 1
                       /\ bone_name' = IF root_cursor + 1 < Len(root_bone_names)
                                       THEN At(root_bone_names, root_cursor + 1)
                                       ELSE bone_name
                       /\ UNCHANGED <<pc, result>>
                  ELSE /\ bone_name' = instigator_bone_name
                       /\ UNCHANGED <<pc, result, root_cursor, console>>
    /\ UNCHANGED <<call, armature, bone_filter_mode, bone_collection_indices,
                   bone_index_stack, bone_indices, root_bone_names,
                   convertVars, writerVars, dialogVars>>

\* helpers.py:151-153  every root bone has its line: the error is raised.
RaiseMultipleRoots ==
    /\ call = "get_export_bone_names" /\ pc = "diagnose"
    /\ root_cursor = Len(root_bone_names)
    /\ result' = [kind |-> "RuntimeError", root_bone_names |-> root_bone_names]
    /\ pc' = "done"
    /\ UNCHANGED <<call, armature, selectVars, convertVars, writerVars, dialogVars>>

----------------------------------------------------------------------------
(* convert_blender_bones_to_psx_bones, helpers.py:162-246.  The model      *)
(* keeps the linkage of the exported bones (name, flags, parent_index,     *)
(* children_count) and the failures of the loop; the location and the      *)
(* rotation of a bone are floating-point values that no step of the loop   *)
(* reads back, and are left out.                                           *)

\* A bone name with a character outside the Windows-1252 code page.
UnencodableName == "bone_U+9AA8"

BoneNameTables ==
    {BoneNameTable, [BoneNameTable EXCEPT ![2] = UnencodableName]}

\* helpers.py:186  bytes(bone.name, encoding='windows-1252') succeeds.
IsEncodable(name) == name # UnencodableName

\* helpers.py:186  the encoded name.
EncodeName(name) == <<"windows-1252", name>>

ExportSpaces == {"WORLD", "ARMATURE", "LOCAL"}

\* The lists of distinct bones of an armature of n bones, in any order.
BoneLists(n) ==
    UNION {
        {l \in [1..k -> 0..(n - 1)] : \A i, j \in 1..k : i # j => l[i] # l[j]}
        : k \in 0..n }

\* A slip: the parent's index in the armature instead of its position in the list.
ParentIndex_InArmature(lst, arm, bone) ==
    IF ListIndex(lst, ParentOf(arm, bone)) = NotFound THEN NotFound
    ELSE ParentOf(arm, bone)

\* helpers.py:196  bones.index(bone.parent), NotFound for the ValueError
\* (bone.parent is None, or a bone that is not in the list).
ParentIndex(lst, arm, bone) == ListIndex(lst, ParentOf(arm, bone))

\* helpers.py:209-216  get_armature_local_matrix does not raise.
IsExportSpaceValid(space) == space \in {"WORLD", "ARMATURE"}

\* helpers.py:198  psx_bones[parent_index].children_count += 1
IncrementChildren(converted, parent_index) ==
    [converted EXCEPT ![parent_index + 1].children_count = @ + 1]

InitConvert ==
    /\ call = "convert_blender_bones_to_psx_bones"
    /\ pc = "loop"
    /\ \E n \in 0..MaxBones :
          /\ armature \in
                { [parent |-> par,
                   collections |-> [i \in 1..n |-> {}],
                   names |-> SubSeq(tbl, 1, n),
                   collections_all |-> CollectionsAll] :
                     par \in ParentSeqs(n), tbl \in BoneNameTables }
          /\ bones \in BoneLists(n)
    /\ export_space \in ExportSpaces
    /\ psx_bones = <<>>
    /\ bone_filter_mode = "ALL" /\ bone_collection_indices = {}
    /\ bone_index_stack = <<>> /\ bone_indices = <<>>
    /\ psk = EmptyPsk /\ file = NoFile /\ section = 0 /\ cursor = 0 /\ wedges = <<>>
    /\ root_bone_names = <<>> /\ root_cursor = 0 /\ bone_name = "" /\ console = <<>>
    /\ bone_collection_list = <<>> /\ material_list = <<>> /\ material_list_index = 0
    /\ result = [kind |-> "running"]

\* helpers.py:182-244  one iteration of the for loop, over the next bone.
ConvertBone ==
    /\ call = "convert_blender_bones_to_psx_bones" /\ pc = "loop"
    /\ Len(psx_bones) < Len(bones)
    /\ LET bone == bones[Len(psx_bones) + 1]
           name == At(armature.names, bone)
           parent_index == ParentIndex(bones, armature, bone)
           psx_bone == [name |-> EncodeName(name), flags |-> 0, children_count |-> 0,
                        parent_index |-> IF parent_index = NotFound THEN 0 ELSE parent_index]
       IN IF ~IsEncodable(name)
          THEN \* helpers.py:187-189
               /\ result' = [kind |-> "RuntimeError", name |-> name]
               /\ pc' = "done"
               /\ UNCHANGED psx_bones
          ELSE IF parent_index # NotFound /\ parent_index >= Len(psx_bones)
          THEN \* helpers.py:198  the parent is not converted yet: IndexError
               /\ result' = [kind |-> "IndexError"]
               /\ pc' = "done"
               /\ UNCHANGED psx_bones
          ELSE IF ParentOf(armature, bone) = None /\ ~IsExportSpaceValid(export_space)
          THEN \* helpers.py:216
               /\ result' = [kind |-> "ValueError"]
               /\ pc' = "done"
               /\ psx_bones' = psx_bones
          ELSE /\ psx_bones' =
                     Append(IF parent_index = NotFound THEN psx_bones
                            ELSE IncrementChildren(psx_bones, parent_index),
                            psx_bone)
               /\ UNCHANGED <<pc, result>>
    /\ UNCHANGED <<call, armature, selectVars, writerVars, dialogVars, bones, export_space>>

\* helpers.py:246
ConvertReturn ==
    /\ call = "convert_blender_bones_to_psx_bones" /\ pc = "loop"
    /\ Len(psx_bones) = Len(bones)
    /\ result' = [kind |-> "return", psx_bones |-> psx_bones]
    /\ pc' = "done"
    /\ UNCHANGED <<call, armature, selectVars, convertVars, writerVars, dialogVars>>

----------------------------------------------------------------------------
(* export_psk and _write_section, exporter.py:12-59                        *)

MAX_WEDGE_COUNT == 65536

\* exporter.py:13  4294967296 = 65536 * Limb
MAX_POINT_COUNT == [hi |-> 65536, lo |-> 0]

MAX_BONE_COUNT == 256

MAX_MATERIAL_COUNT == 256

\* A slip: >= for >, so that a list at its ceiling is refused.
ExceedsLimit_OrEqual(list, limit) ==
    BigGt(ListLen(list), limit) \/ ListLen(list) = limit

\* len(list) > limit
ExceedsLimit(list, limit) == BigGt(ListLen(list), limit)

\* exporter.py:31-40  the error export_psk raises for p, "" when it raises none.
CapacityError(p) ==
    IF ExceedsLimit(p.wedges, BigOf(MAX_WEDGE_COUNT)) THEN "wedges"
    ELSE IF ExceedsLimit(p.points, MAX_POINT_COUNT) THEN "points"
    ELSE IF ExceedsLimit(p.materials, BigOf(MAX_MATERIAL_COUNT)) THEN "materials"
    ELSE IF ExceedsLimit(p.bones, BigOf(MAX_BONE_COUNT)) THEN "bones"
    ELSE IF ListLen(p.bones) = BigOf(0) THEN "no bones"
    ELSE ""

\* sizeof(Section): name[20], data_size:int32, data_count:int32
SectionHeaderSize == 28

\* sizeof(data_type) of the element records
SizeOf(type) ==
    CASE type = "Vector3" -> 12
      [] type = "Wedge16" -> 16
      [] type = "Face" -> 12
      [] type = "Material" -> 88
      [] type = "Bone" -> 120
      [] type = "Weight" -> 12

\* A value stored in a c_int32 field of a Structure: the low 32 bits, signed.
ToInt32(a) ==
    LET h == a.hi % Limb
    IN IF h >= 32768 THEN ((h - Limb) * Limb) + a.lo ELSE (h * Limb) + a.lo

\* A value stored in the uint16 point_index field of a Wedge16.
ToUint16(n) == n % 65536

\* A slip: the faces written before the wedges.
SectionTable_FacesFirst ==
    << [name |-> "ACTRHEAD",   data_type |-> "None",     data |-> "None"],
       [name |-> "PNTS0000",   data_type |-> "Vector3",  data |-> "points"],
       [name |-> "FACE0000",   data_type |-> "Face",     data |-> "faces"],
       [name |-> "VTXW0000",   data_type |-> "Wedge16",  data |-> "wedges"],
       [name |-> "MATT0000",   data_type |-> "Material", data |-> "materials"],
       [name |-> "REFSKELT",   data_type |-> "Bone",     data |-> "bones"],
       [name |-> "RAWWEIGHTS", data_type |-> "Weight",   data |-> "weights"] >>

\* exporter.py:43-59  the _write_section calls of export_psk, in order:
\* the name, the data type and the list written ("None" where none is given).
SectionTable ==
    << [name |-> "ACTRHEAD",   data_type |-> "None",     data |-> "None"],
       [name |-> "PNTS0000",   data_type |-> "Vector3",  data |-> "points"],
       [name |-> "VTXW0000",   data_type |-> "Wedge16",  data |-> "wedges"],
       [name |-> "FACE0000",   data_type |-> "Face",     data |-> "faces"],
       [name |-> "MATT0000",   data_type |-> "Material", data |-> "materials"],
       [name |-> "REFSKELT",   data_type |-> "Bone",     data |-> "bones"],
       [name |-> "RAWWEIGHTS", data_type |-> "Weight",   data |-> "weights"] >>

\* The list a _write_section call is given: a list of psk, or the local wedges.
SectionData(p, local_wedges, k) ==
    IF SectionTable[k].data = "wedges" THEN local_wedges
    ELSE IF SectionTable[k].data = "points" THEN p.points
    ELSE IF SectionTable[k].data = "faces" THEN p.faces
    ELSE IF SectionTable[k].data = "materials" THEN p.materials
    ELSE IF SectionTable[k].data = "bones" THEN p.bones
    ELSE p.weights

\* exporter.py:19-23  the Section header of a call.
SectionHeader(name, data_type, has_data, data) ==
    [kind |-> "Section",
     name |-> name,
     data_size |-> IF data_type # "None" /\ has_data THEN SizeOf(data_type) ELSE 0,
     data_count |-> IF data_type # "None" /\ has_data THEN ToInt32(ListLen(data)) ELSE 0]

\* exporter.py:47-53  a wedge re-encoded as a Wedge16 (u, v and
\* material_index are copied as they are).
EncodeWedge16(w) == [type |-> "Wedge16", point_index |-> ToUint16(w.point_index)]

\* exporter.py:46-53
EncodeWedges(ws) ==
    [i \in 1..Len(ws) |-> [datum |-> EncodeWedge16(ws[i].datum), count |-> ws[i].count]]

InitExport ==
    /\ call = "export_psk"
    /\ pc = "validate"
    /\ psk \in Psks
    /\ file \in {NoFile, OldFile}
    /\ section = 0 /\ cursor = 0 /\ wedges = <<>>
    /\ armature = [parent |-> <<>>, collections |-> <<>>, names |-> <<>>,
                   collections_all |-> CollectionsAll]
    /\ bone_filter_mode = "ALL" /\ bone_collection_indices = {}
    /\ bone_index_stack = <<>> /\ bone_indices = <<>>
    /\ bones = <<>> /\ export_space = "WORLD" /\ psx_bones = <<>>
    /\ root_bone_names = <<>> /\ root_cursor = 0 /\ bone_name = "" /\ console = <<>>
    /\ bone_collection_list = <<>> /\ material_list = <<>> /\ material_list_index = 0
    /\ result = [kind |-> "running"]

ExportUnchanged == UNCHANGED <<call, armature, selectVars, convertVars, dialogVars, psk>>

\* exporter.py:31-40
Validate ==
    /\ call = "export_psk" /\ pc = "validate"
    /\ IF CapacityError(psk) # ""
       THEN /\ result' = [kind |-> "RuntimeError", what |-> CapacityError(psk)]
            /\ pc' = "done"
       ELSE /\ pc' = "open"
            /\ UNCHANGED result
    /\ UNCHANGED <<file, section, cursor, wedges>>
    /\ ExportUnchanged

\* exporter.py:42  open(path, 'wb') creates the file or truncates it.
OpenFile ==
    /\ call = "export_psk" /\ pc = "open"
    /\ file' = [exists |-> TRUE, content |-> <<>>]
    /\ section' = 1
    /\ pc' = "header"
    /\ UNCHANGED <<cursor, wedges, result>>
    /\ ExportUnchanged

\* What follows the _write_section call k.
AfterSection(k) ==
    IF k = Len(SectionTable) THEN [pc |-> "close", section |-> 0]
    ELSE IF SectionTable[k + 1].data = "wedges" THEN [pc |-> "encode", section |-> 0]
    ELSE [pc |-> "header", section |-> k + 1]

\* exporter.py:19-24  _write_section builds the header and writes it.
WriteHeader ==
    /\ call = "export_psk" /\ pc = "header"
    /\ LET s == SectionTable[section]
           has_data == s.data # "None"
           data == SectionData(psk, wedges, section)
       IN /\ file' = [file EXCEPT !.content =
                         Append(@, SectionHeader(s.name, s.data_type, has_data, data))]
          /\ IF has_data /\ Len(data) > 0
             THEN /\ pc' = "data" /\ UNCHANGED section
             ELSE /\ pc' = AfterSection(section).pc
                  /\ section' = AfterSection(section).section
    /\ cursor' = 0
    /\ UNCHANGED <<wedges, result>>
    /\ ExportUnchanged

\* exporter.py:26-27  the for loop of _write_section, one run of equal data.
WriteData ==
    /\ call = "export_psk" /\ pc = "data"
    /\ LET data == SectionData(psk, wedges, section)
           run == data[cursor + 1]
       IN /\ file' = [file EXCEPT !.content =
                         Append(@, [kind |-> "data", datum |-> run.datum, count |-> run.count])]
          /\ IF cursor + 1 < Len(data)
             THEN /\ cursor' = cursor + 1
                  /\ UNCHANGED <<pc, section>>
             ELSE /\ cursor' = 0
                  /\ pc' = AfterSection(section).pc
                  /\ section' = AfterSection(section).section
    /\ UNCHANGED <<wedges, result>>
    /\ ExportUnchanged

\* exporter.py:46-53
ReencodeWedges ==
    /\ call = "export_psk" /\ pc = "encode"
    /\ wedges' = EncodeWedges(psk.wedges)
    /\ section' = CHOOSE k \in 1..Len(SectionTable) : SectionTable[k].data = "wedges"
    /\ pc' = "header"
    /\ UNCHANGED <<file, cursor, result>>
    /\ ExportUnchanged

\* exporter.py:42  the with block ends: the file is closed, export_psk returns.
CloseFile ==
    /\ call = "export_psk" /\ pc = "close"
    /\ result' = [kind |-> "return"]
    /\ pc' = "done"
    /\ UNCHANGED <<file, section, cursor, wedges>>
    /\ ExportUnchanged

----------------------------------------------------------------------------
(* populate_bone_collection_list, helpers.py:32-74, in a session of the    *)
(* export dialog: the list is filled from the armature each time the       *)
(* dialog is opened, the user ticks and unticks its entries, and the       *)
(* armature's bone collections are edited in between.                      *)

\* The names a bone collection can have.  Blender lets the user name a
\* collection 'Unassigned', like the entry the list adds by itself.
CollectionNames == Range(CollectionsAll) \cup {"Unassigned"}

\* helpers.py:39  any([g.is_selected for g in bone_collection_list])
HasSelectedCollections(list) == \E i \in 1..Len(list) : list[i].is_selected

\* helpers.py:49-50  next(iter([(i, g.is_selected) ... if g.index == -1]), (-1, False))
UnassignedCollection(list) ==
    LET found == {i \in 1..Len(list) : list[i].index = -1}
    IN  IF found = {} THEN <<-1, FALSE>>
        ELSE <<Min(found) - 1, list[Min(found)].is_selected>>

\* The list comprehension without its test on the position: the name of
\* every selected entry, the 'Unassigned' entry's among them.
SelectedAssignedCollectionNames_All(list, unassigned_collection_idx) ==
    {list[i].name : i \in {j \in 1..Len(list) : list[j].is_selected}}

\* helpers.py:52-53  [g.name for i, g in enumerate(bone_collection_list)
\*                    if i != unassigned_collection_idx and g.is_selected]
\* (the list is only used for membership: it is kept as the set of its names)
SelectedAssignedCollectionNames(list, unassigned_collection_idx) ==
    {list[i].name :
        i \in {j \in 1..Len(list) : j - 1 # unassigned_collection_idx /\ list[j].is_selected}}

\* helpers.py:62-67  the 'Unassigned' entry
UnassignedItem(arm, is_selected) ==
    [name |-> "Unassigned",
     index |-> -1,
     count |-> Cardinality({b \in 1..Len(arm.collections) : arm.collections[b] = {}}),
     is_selected |-> is_selected]

\* helpers.py:69-74  the entry of the bone collection at bone_collection_index
CollectionItem(arm, bone_collection_index, is_selected) ==
    LET bone_collection == At(arm.collections_all, bone_collection_index)
    IN  [name |-> bone_collection,
         index |-> bone_collection_index,
         count |-> Cardinality({b \in 1..Len(arm.collections) :
                                   bone_collection \in arm.collections[b]}),
         is_selected |-> is_selected]

\* helpers.py:39-74  the list the function leaves for an armature with data
PopulatedBoneCollectionList(arm, list) ==
    LET has_selected_collections == HasSelectedCollections(list)
        unassigned == IF has_selected_collections
                      THEN UnassignedCollection(list)
                      ELSE <<-1, TRUE>>
        selected_assigned_collection_names ==
            IF has_selected_collections
            THEN SelectedAssignedCollectionNames(list, unassigned[1])
            ELSE {}
    IN  <<UnassignedItem(arm, unassigned[2])>> \o
        [k \in 1..Len(arm.collections_all) |->
            CollectionItem(arm, k - 1,
                           IF has_selected_collections
                           THEN arm.collections_all[k] \in selected_assigned_collection_names
                           ELSE TRUE)]

\* What armature_object can be: an armature, None, or an object without data.
ArmatureObjects == {"armature", "None", "no data"}

InitPopulate ==
    /\ call = "populate_bone_collection_list"
    /\ pc = "opened"
    /\ armature = [parent |-> <<None, 0>>,
                   collections |-> <<{}, {}>>,
                   names |-> SubSeq(BoneNameTable, 1, 2),
                   collections_all |-> <<>>]
    /\ bone_collection_list = <<>>
    /\ material_list = <<>> /\ material_list_index = 0
    /\ bone_filter_mode = "ALL" /\ bone_collection_indices = {}
    /\ bone_index_stack = <<>> /\ bone_indices = <<>>
    /\ root_bone_names = <<>> /\ root_cursor = 0 /\ bone_name = "" /\ console = <<>>
    /\ bones = <<>> /\ export_space = "WORLD" /\ psx_bones = <<>>
    /\ psk = EmptyPsk /\ file = NoFile /\ section = 0 /\ cursor = 0 /\ wedges = <<>>
    /\ result = [kind |-> "running"]

PopulateUnchanged ==
    UNCHANGED <<call, selectVars, convertVars, writerVars, material_list,
                material_list_index, result>>

\* helpers.py:32-74  one call of the function; pc records how it returned.
PopulateBoneCollectionList ==
    /\ call = "populate_bone_collection_list"
    /\ \E armature_object \in ArmatureObjects :
          \/ /\ armature_object = "None"                   \* helpers.py:42-43
             /\ pc' = "returned for None"
             /\ UNCHANGED bone_collection_list
          \/ /\ armature_object = "no data"                \* helpers.py:55-60
             /\ pc' = "returned for no data"
             /\ bone_collection_list' = <<>>
          \/ /\ armature_object = "armature"
             /\ pc' = "populated"
             /\ bone_collection_list' =
                    PopulatedBoneCollectionList(armature, bone_collection_list)
    /\ UNCHANGED armature
    /\ PopulateUnchanged

\* properties.py:53  the user ticks or unticks an entry of the list
ToggleIsSelected ==
    /\ call = "populate_bone_collection_list"
    /\ \E i \in 1..Len(bone_collection_list) :
          bone_collection_list' =
              [bone_collection_list EXCEPT ![i].is_selected = ~bone_collection_list[i].is_selected]
    /\ pc' = "edited"
    /\ UNCHANGED armature
    /\ PopulateUnchanged

\* helpers.py:69  armature.collections_all changes between two calls: a
\* collection is added, removed or renamed (names stay distinct)
EditCollections ==
    /\ call = "populate_bone_collection_list"
    /\ LET all == armature.collections_all
           fresh == CollectionNames \ Range(all)
       IN  \/ /\ Len(all) < Len(CollectionsAll)
              /\ \E nm \in fresh :
                    armature' = [armature EXCEPT !.collections_all = Append(all, nm)]
           \/ \E k \in 1..Len(all) :
                 armature' =
                    [armature EXCEPT
                        !.collections_all =
                            SubSeq(all, 1, k - 1) \o SubSeq(all, k + 1, Len(all)),
                        !.collections =
                            [b \in 1..Len(armature.collections) |->
                                armature.collections[b] \ {all[k]}]]
           \/ \E k \in 1..Len(all), nm \in fresh :
                 armature' =
                    [armature EXCEPT
                        !.collections_all = [all EXCEPT ![k] = nm],
                        !.collections =
                            [b \in 1..Len(armature.collections) |->
                                IF all[k] \in armature.collections[b]
                                THEN (armature.collections[b] \ {all[k]}) \cup {nm}
                                ELSE armature.collections[b]]]
    /\ pc' = "edited"
    /\ UNCHANGED bone_collection_list
    /\ PopulateUnchanged

\* helpers.py:66,72  bone.collections changes between two calls: a bone is
\* put into a collection or taken out of it
AssignBone ==
    /\ call = "populate_bone_collection_list"
    /\ \E b \in 1..Len(armature.collections), nm \in Range(armature.collections_all) :
          armature' =
              [armature EXCEPT
                  !.collections[b] = IF nm \in @ THEN @ \ {nm} ELSE @ \cup {nm}]
    /\ pc' = "edited"
    /\ UNCHANGED bone_collection_list
    /\ PopulateUnchanged

----------------------------------------------------------------------------
(* The export material list, exporter.py:87-138: populate_material_list    *)
(* fills pg.material_list each time the export dialog is invoked           *)
(* (exporter.py:168) and the two move operators reorder it;                *)
(* pg.material_list_index is the row selected in the list widget.          *)

\* The material names of the model.
MaterialTable == <<"skin", "cloth", "metal">>

\* mesh_object.data.materials: up to two slots, a material or None each.
MaterialSlots ==
    {<<>>} \cup {<<a>> : a \in Range(MaterialTable) \cup {NoName}}
           \cup {<<a, b>> : a, b \in Range(MaterialTable) \cup {NoName}}

\* mesh_objects: one or two mesh objects, each kept as its material slots.
MeshObjectLists ==
    {<<o>> : o \in MaterialSlots} \cup {<<o, p>> : o, p \in MaterialSlots}

\* The slots of the mesh objects in the order the two loops visit them.
RECURSIVE AllSlots(_)
AllSlots(mesh_objects) ==
    IF mesh_objects = <<>> THEN <<>>
    ELSE Head(mesh_objects) \o AllSlots(Tail(mesh_objects))

\* exporter.py:96-97  each name once, in the order of its first slot.
UniqueNames(slots) ==
    LET firsts == {i \in 1..Len(slots) : \A j \in 1..(i - 1) : slots[j] # slots[i]}
    IN  [k \in 1..Cardinality(firsts) |->
            slots[CHOOSE i \in firsts : Cardinality({j \in firsts : j < i}) = k - 1]]

\* exporter.py:90-102  one entry per material name, index its position.
MaterialListOf(slots) ==
    LET names == UniqueNames(slots)
    IN  [i \in 1..Len(names) |-> [material_name |-> names[i], index |-> i - 1]]

\* exporter.py:118,136  material_list.move(from, to) of Blender's collection
\* properties: the entry at from is taken out and put in at to; nothing
\* changes for an index outside the list.
ListMove(list, from, to) ==
    IF from \in 0..(Len(list) - 1) /\ to \in 0..(Len(list) - 1)
    THEN LET without == SubSeq(list, 1, from) \o SubSeq(list, from + 2, Len(list))
         IN  SubSeq(without, 1, to) \o <<At(list, from)>> \o
             SubSeq(without, to + 1, Len(without))
    ELSE list

\* exporter.py:255-256  the property group as registered: an empty list,
\* material_list_index at its default.
InitMaterialList ==
    /\ call = "material_list"
    /\ pc = "registered"
    /\ material_list = <<>>
    /\ material_list_index = 0
    /\ bone_collection_list = <<>>
    /\ armature = [parent |-> <<>>, collections |-> <<>>, names |-> <<>>,
                   collections_all |-> CollectionsAll]
    /\ bone_filter_mode = "ALL" /\ bone_collection_indices = {}
    /\ bone_index_stack = <<>> /\ bone_indices = <<>>
    /\ root_bone_names = <<>> /\ root_cursor = 0 /\ bone_name = "" /\ console = <<>>
    /\ bones = <<>> /\ export_space = "WORLD" /\ psx_bones = <<>>
    /\ psk = EmptyPsk /\ file = NoFile /\ section = 0 /\ cursor = 0 /\ wedges = <<>>
    /\ result = [kind |-> "running"]

MaterialListUnchanged ==
    UNCHANGED <<call, armature, selectVars, convertVars, writerVars,
                bone_collection_list, result>>

\* exporter.py:87-102  one call of populate_material_list; a None slot raises
\* after the clear and before any entry is added.
PopulateMaterialList ==
    /\ call = "material_list"
    /\ \E mesh_objects \in MeshObjectLists :
          LET slots == AllSlots(mesh_objects)
          IN  IF NoName \in Range(slots)
              THEN /\ material_list' = <<>>
                   /\ pc' = "RuntimeError"
              ELSE /\ material_list' = MaterialListOf(slots)
                   /\ pc' = "populated"
    /\ UNCHANGED material_list_index
    /\ MaterialListUnchanged

\* exporter.py:105-120  PskMaterialListItemMoveUp: poll, then execute
MoveUp ==
    /\ call = "material_list"
    /\ material_list_index > 0
    /\ material_list' = ListMove(material_list, material_list_index, material_list_index - 1)
    /\ material_list_index' = material_list_index - 1
    /\ pc' = "moved up"
    /\ MaterialListUnchanged

\* exporter.py:123-138  PskMaterialListItemMoveDown: poll, then execute
MoveDown ==
    /\ call = "material_list"
    /\ material_list_index < Len(material_list) - 1
    /\ material_list' = ListMove(material_list, material_list_index, material_list_index + 1)
    /\ material_list_index' = material_list_index + 1
    /\ pc' = "moved down"
    /\ MaterialListUnchanged

----------------------------------------------------------------------------

Init == InitSelect \/ InitConvert \/ InitExport \/ InitPopulate \/ InitMaterialList

Next ==
    \/ CollectSeeds
    \/ ClosureStep
    \/ SortAndReturn
    \/ DiagnoseStep
    \/ RaiseMultipleRoots
    \/ ConvertBone
    \/ ConvertReturn
    \/ Validate
    \/ OpenFile
    \/ WriteHeader
    \/ WriteData
    \/ ReencodeWedges
    \/ CloseFile
    \/ PopulateBoneCollectionList
    \/ ToggleIsSelected
    \/ EditCollections
    \/ AssignBone
    \/ PopulateMaterialList
    \/ MoveUp
    \/ MoveDown

Spec == Init /\ [][Next]_vars

\* get_export_bone_names alone, as a call that keeps running: the
\* interpreter always takes the next step of the body.
NextSelect ==
    \/ CollectSeeds
    \/ ClosureStep
    \/ SortAndReturn
    \/ DiagnoseStep
    \/ RaiseMultipleRoots

FairSelectSpec == InitSelect /\ [][NextSelect]_vars /\ WF_vars(NextSelect)

----------------------------------------------------------------------------
(* Properties of get_export_bone_names.                                    *)

SelectDone == call = "get_export_bone_names" /\ pc = "done"

Returned == SelectDone /\ result.kind = "return"

RaisedMultipleRoots == SelectDone /\ result.kind = "RuntimeError"

\* The armature index of a returned bone name.
IndexOfName(nm) == ListIndex(armature.names, nm)

\* The returned names as a set of armature bone indices.
ReturnedBones == {IndexOfName(result.bone_names[i]) : i \in 1..Len(result.bone_names)}

\* The ancestors of bone b, b excluded.
RECURSIVE Ancestors(_, _)
Ancestors(arm, b) ==
    IF ParentOf(arm, b) = None THEN {}
    ELSE {ParentOf(arm, b)} \cup Ancestors(arm, ParentOf(arm, b))

\* The bones of S whose parent link does not lead into S.
InducedRoots(S) ==
    {b \in S : ParentOf(armature, b) = None \/ ParentOf(armature, b) \notin S}

\* The parent links induced on S form one tree: one bone has no parent in S,
\* and (the links being acyclic) every other bone hangs below it.
SingleTree(S) ==
    /\ Cardinality(InducedRoots(S)) = 1
    /\ \A b \in S : InducedRoots(S) \subseteq ({b} \cup Ancestors(armature, b))

\* The seeds as the specification defines them.
SeedBones ==
    {b \in BoneIdx(armature) :
        \/ bone_filter_mode = "ALL"
        \/ \E c \in At(armature.collections, b) :
              \E k \in bone_collection_indices \cap 0..(Len(armature.collections_all) - 1) :
                  At(armature.collections_all, k) = c
        \/ (At(armature.collections, b) = {} /\ -1 \in bone_collection_indices)}

\* The seeds and all their ancestors.
SeedClosure == SeedBones \cup UNION {Ancestors(armature, b) : b \in SeedBones}

ParentlessBones(S) == {b \in S : ParentOf(armature, b) = None}

\* C1 as stated (refuted): a returned sequence always forms a single tree
\* with exactly one root.
C1_ReturnsSingleTree ==
    Returned => SingleTree(ReturnedBones)

\* C1 amended: a call ends by returning or by the multiple-roots error; a
\* returned sequence is empty (no bone is a seed) or forms a single tree with
\* exactly one root, and never holds two or more bones that have no parent.
C1_EmptyOrSingleTree ==
    /\ SelectDone => result.kind \in {"return", "RuntimeError"}
    /\ Returned =>
          /\ (result.bone_names = <<>> \/ SingleTree(ReturnedBones))
          /\ Cardinality(ParentlessBones(ReturnedBones)) <= 1

\* C1 witness: a hierarchy with two roots, of which the filter selects one
\* subtree of two or more bones, is returned as a single tree.
C1_Witness ==
    /\ Returned
    /\ Cardinality(ParentlessBones(BoneIdx(armature))) >= 2
    /\ Len(result.bone_names) >= 2
    /\ SingleTree(ReturnedBones)

\* C2: ancestor closure: the source parent of every returned bone that has
\* one is returned too, and so is every ancestor.
C2_AncestorClosure ==
    Returned =>
        \A b \in ReturnedBones :
            /\ ParentOf(armature, b) # None =>
                  At(armature.names, ParentOf(armature, b)) \in Range(result.bone_names)
            /\ Ancestors(armature, b) \subseteq ReturnedBones

\* C2 witness: a returned bone that is no seed, pulled in as the parent of a
\* seed.
C2_Witness ==
    /\ Returned
    /\ \E b \in ReturnedBones :
          /\ ParentOf(armature, b) # None
          /\ ParentOf(armature, b) \notin SeedBones
          /\ ParentOf(armature, b) \in ReturnedBones

\* C3: the returned bones are exactly the seeds and the ancestors of seeds;
\* the call returns when that set has at most one parentless bone and raises
\* the multiple-roots error, naming those bones, when it has more.
C3_SeedsPlusAncestors ==
    /\ Returned =>
          /\ ReturnedBones = SeedClosure
          /\ Cardinality(ParentlessBones(SeedClosure)) <= 1
    /\ RaisedMultipleRoots =>
          /\ Cardinality(ParentlessBones(SeedClosure)) >= 2
          /\ {IndexOfName(nm) : nm \in Range(result.root_bone_names)}
                = ParentlessBones(SeedClosure)

\* C3 witness: two unrelated roots A (in a collection) and B (unassigned);
\* selecting only B returns [B], A is left out.
C3_Witness ==
    /\ Returned
    /\ NumBones(armature) = 2
    /\ ParentlessBones(BoneIdx(armature)) = {0, 1}
    /\ bone_filter_mode = "BONE_COLLECTIONS"
    /\ SeedBones = {1}
    /\ result.bone_names = <<At(armature.names, 1)>>

\* The ascending enumeration of a set of bone indices.
RECURSIVE Ascending(_)
Ascending(S) ==
    IF S = {} THEN <<>>
    ELSE <<Min(S)>> \o Ascending(S \ {Min(S)})

\* C4: the returned sequence is a function of the inputs alone: the seed
\* closure listed in strictly ascending armature index, without duplicates,
\* whatever the worklist did (which bone instigated which, how often a bone
\* was pushed).
C4_AscendingOrder ==
    Returned =>
        /\ \A i, j \in 1..Len(result.bone_names) :
              i < j => IndexOfName(result.bone_names[i]) < IndexOfName(result.bone_names[j])
        /\ result.bone_names =
              [i \in 1..Cardinality(SeedClosure) |->
                  At(armature.names, Ascending(SeedClosure)[i])]

\* C4 witness: a root reached as a seed and as the parent of its two seed
\* children is returned once, first.
C4_Witness ==
    /\ Returned
    /\ NumBones(armature) = 3
    /\ armature.parent = <<None, 0, 0>>
    /\ SeedBones = {0, 1, 2}
    /\ result.bone_names = SubSeq(BoneNameTable, 1, 3)

----------------------------------------------------------------------------
(* Properties of convert_blender_bones_to_psx_bones.                       *)

ConvertDone == call = "convert_blender_bones_to_psx_bones" /\ pc = "done"

\* The 0-based positions of a list.
Positions(lst) == 0..(Len(lst) - 1)

\* The position of the source parent of the bone at position i, if the
\* parent is in the list.
ParentPositions(i) ==
    {j \in Positions(bones) : At(bones, j) = ParentOf(armature, At(bones, i))}

\* Each parent that is in the list precedes its children.
ParentsPrecedeChildren ==
    \A i \in Positions(bones) : \A j \in ParentPositions(i) : j < i

\* Nothing but the order of the list can make the conversion fail: the names
\* are encodable, and the export space is valid if a parentless bone is listed.
ConvertibleInput ==
    /\ \A i \in Positions(bones) : IsEncodable(At(armature.names, At(bones, i)))
    /\ \/ export_space \in {"WORLD", "ARMATURE"}
       \/ \A i \in Positions(bones) : ParentOf(armature, At(bones, i)) # None

\* C10: for a list in which each listed parent precedes its children, the
\* conversion returns one exported bone per input bone, in the same order;
\* parent_index is the position of the source parent in the list (smaller
\* than the bone's own position) or 0 when the bone has no parent or its
\* parent is not listed; children_count is the number of listed bones whose
\* source parent is that bone.
C10_ParentIndexAndChildrenCount ==
    (ConvertDone /\ ParentsPrecedeChildren /\ ConvertibleInput) =>
        /\ result.kind = "return"
        /\ Len(result.psx_bones) = Len(bones)
        /\ \A i \in Positions(bones) :
              LET psx_bone == At(result.psx_bones, i)
              IN /\ psx_bone.name = EncodeName(At(armature.names, At(bones, i)))
                 /\ ParentPositions(i) # {} =>
                       /\ psx_bone.parent_index \in ParentPositions(i)
                       /\ psx_bone.parent_index < i
                 /\ ParentPositions(i) = {} => psx_bone.parent_index = 0
                 /\ psx_bone.children_count =
                       Cardinality({j \in Positions(bones) : i \in ParentPositions(j)})

\* C10 witness: root -> mid -> tip, all three listed in that order: parent
\* indices 0, 0, 1 and children counts 1, 1, 0.
C10_Witness ==
    /\ ConvertDone /\ result.kind = "return"
    /\ armature.parent = <<None, 0, 1>>
    /\ bones = <<0, 1, 2>>
    /\ [i \in 1..3 |-> result.psx_bones[i].parent_index] = <<0, 0, 1>>
    /\ [i \in 1..3 |-> result.psx_bones[i].children_count] = <<1, 1, 0>>

----------------------------------------------------------------------------
(* Properties of export_psk.                                               *)

Exporting == call = "export_psk"

ExportDone == Exporting /\ pc = "done"

\* The conditions under which the specification has the writer refuse a Psk.
OverCapacity ==
    \/ BigGt(ListLen(psk.wedges), BigOf(65536))
    \/ BigGt(ListLen(psk.points), [hi |-> 65536, lo |-> 0])
    \/ BigGt(ListLen(psk.materials), BigOf(256))
    \/ BigGt(ListLen(psk.bones), BigOf(256))
    \/ psk.bones = <<>>

\* C5: export_psk raises the capacity error, leaving the path as it was (no
\* file created, an old file untouched), exactly when the wedge, point,
\* material or bone count is over its ceiling or there is no bone; any other
\* Psk, the ones at the ceilings included, is written and the call returns.
C5_CapacityErrorsBeforeOpen ==
    Exporting =>
        /\ OverCapacity =>
              /\ file \in {NoFile, OldFile}
              /\ pc \in {"validate", "done"}
              /\ pc = "done" => result.kind = "RuntimeError"
        /\ ~OverCapacity =>
              /\ pc = "done" =>
                    /\ result.kind = "return"
                    /\ file.exists
                    /\ file.content # <<>>
                    /\ [kind |-> "old"] \notin Range(file.content)

\* C5 witness: 65537 wedges are refused and the old file is still there.
C5_Witness ==
    /\ ExportDone
    /\ ListLen(psk.wedges) = BigOf(65537)
    /\ result.kind = "RuntimeError"
    /\ file = OldFile

\* What an entry of the file is: a section header by its name, an element
\* record by its type.
EntryTag(e) == IF e.kind = "Section" THEN e.name ELSE e.datum.type

FileLayout == [i \in 1..Len(file.content) |-> EntryTag(file.content[i])]

\* A section of the layout: its header, then one entry per run of its list.
SectionLayout(name, type, list) == <<name>> \o [i \in 1..Len(list) |-> type]

\* The seven sections in the canonical order.
CanonicalLayout ==
    SectionLayout("ACTRHEAD", "None", <<>>)
    \o SectionLayout("PNTS0000", "Vector3", psk.points)
    \o SectionLayout("VTXW0000", "Wedge16", psk.wedges)
    \o SectionLayout("FACE0000", "Face", psk.faces)
    \o SectionLayout("MATT0000", "Material", psk.materials)
    \o SectionLayout("REFSKELT", "Bone", psk.bones)
    \o SectionLayout("RAWWEIGHTS", "Weight", psk.weights)

IsPrefix(a, b) == Len(a) <= Len(b) /\ a = SubSeq(b, 1, Len(a))

\* The file is open or was written by this call.
FileOpened == Exporting /\ pc \in {"header", "data", "encode", "close", "done"} /\ ~OverCapacity

\* C6: once the file is opened (and truncated), what is written is at every
\* moment a prefix of the seven sections in the canonical order, each header
\* followed by the records of its own list; when the call returns the file
\* holds all seven, none skipped or repeated, empty lists included.
C6_CanonicalSectionOrder ==
    FileOpened =>
        /\ IsPrefix(FileLayout, CanonicalLayout)
        /\ pc \in {"close", "done"} =>
              /\ FileLayout = CanonicalLayout
              /\ Cardinality({i \in 1..Len(file.content) :
                                 file.content[i].kind = "Section"}) = 7

\* C6 witness: a Psk with no faces and two runs of wedges is written in full.
C6_Witness ==
    /\ ExportDone /\ result.kind = "return"
    /\ psk.faces = <<>>
    /\ Len(psk.wedges) = 2
    /\ Len(file.content) = Len(CanonicalLayout)

\* The positions of the section headers of the file.
HeaderPositions == {i \in 1..Len(file.content) : file.content[i].kind = "Section"}

\* The records written between the header at i and the next header.
RecordsAfter(i) ==
    {j \in (i + 1)..Len(file.content) :
        /\ file.content[j].kind = "data"
        /\ \A h \in HeaderPositions : ~(i < h /\ h < j)}

RECURSIVE SumCounts(_)
SumCounts(J) ==
    IF J = {} THEN BigOf(0)
    ELSE BigAdd(file.content[Min(J)].count, SumCounts(J \ {Min(J)}))

\* The bytes of the file: sizeof(Section) for a header, the record size for
\* each record.
RECURSIVE FileBytes(_)
FileBytes(content) ==
    IF content = <<>> THEN BigOf(0)
    ELSE BigAdd(IF content[1].kind = "Section" THEN BigOf(SectionHeaderSize)
                ELSE BigMul(content[1].count, SizeOf(content[1].datum.type)),
                FileBytes(Tail(content)))

\* The sum over the headers at I of 28 + data_size * data_count.
RECURSIVE DeclaredBytes(_)
DeclaredBytes(I) ==
    IF I = {} THEN BigOf(0)
    ELSE LET h == file.content[Min(I)]
         IN BigAdd(BigAdd(BigOf(28), BigMul(BigOf(h.data_count), h.data_size)),
                   DeclaredBytes(I \ {Min(I)}))

\* The record size the specification gives for a section.
DeclaredRecordSize(name) ==
    CASE name = "ACTRHEAD" -> 0
      [] name = "PNTS0000" -> SizeOf("Vector3")
      [] name = "VTXW0000" -> SizeOf("Wedge16")
      [] name = "FACE0000" -> SizeOf("Face")
      [] name = "MATT0000" -> SizeOf("Material")
      [] name = "REFSKELT" -> SizeOf("Bone")
      [] name = "RAWWEIGHTS" -> SizeOf("Weight")

\* C7 as stated (refuted by the code): in a written file every header's
\* data_count is the number of records that follow it and data_size is the
\* size of one record (0 and 0 for ACTRHEAD), and the length of the file is
\* the sum over its sections of 28 + data_size * data_count.
C7_CountsMatchRecords ==
    (FileOpened /\ pc \in {"close", "done"}) =>
        /\ \A i \in HeaderPositions :
              /\ file.content[i].data_count >= 0
              /\ BigOf(file.content[i].data_count) = SumCounts(RecordsAfter(i))
              /\ file.content[i].data_size = DeclaredRecordSize(file.content[i].name)
        /\ FileBytes(file.content) = DeclaredBytes(HeaderPositions)

\* Every wedge refers to an existing point.
WedgesConsistent ==
    \A i \in 1..Len(psk.wedges) :
        BigGt(ListLen(psk.points), BigOf(psk.wedges[i].datum.point_index))

\* C8 as stated (refuted by the code): for an accepted, consistent Psk the
\* point_index written for each wedge is the source wedge's point_index.
C8_PointIndexNotNarrowed ==
    (FileOpened /\ WedgesConsistent /\ pc \in {"close", "done"}) =>
        /\ Len(wedges) = Len(psk.wedges)
        /\ \A i \in 1..Len(wedges) :
              wedges[i].datum.point_index = psk.wedges[i].datum.point_index
        /\ \A j \in 1..Len(file.content) :
              (file.content[j].kind = "data" /\ file.content[j].datum.type = "Wedge16") =>
                  \E i \in 1..Len(psk.wedges) :
                      /\ psk.wedges[i].datum.point_index = file.content[j].datum.point_index
                      /\ psk.wedges[i].count = file.content[j].count

\* C9 as stated (refuted by the code): a filter mode other than the two
\* recognized ones makes the selection fail before it computes anything, and
\* an export space other than WORLD and ARMATURE makes the conversion fail
\* before any bone is converted, whatever the bone list.
C9_ConfigurationErrorsRejected ==
    /\ (call = "get_export_bone_names"
        /\ bone_filter_mode \notin {"ALL", "BONE_COLLECTIONS"}) =>
          /\ bone_index_stack = <<>> /\ bone_indices = <<>>
          /\ pc \in {"seeds", "done"}
          /\ pc = "done" => result.kind \notin {"return", "RuntimeError"}
    /\ (call = "convert_blender_bones_to_psx_bones"
        /\ export_space \notin {"WORLD", "ARMATURE"}) =>
          /\ psx_bones = <<>>
          /\ pc = "done" => result.kind = "ValueError"

----------------------------------------------------------------------------
(* Properties of populate_bone_collection_list.                            *)

\* A step that is a call of the function on an armature with data.
PopulateStep == call = "populate_bone_collection_list" /\ pc' = "populated"

\* The list has the 'Unassigned' entry first, with index -1, and after it
\* one entry per bone collection of the armature, in collection-index order.
ListMirrorsArmature(list, arm) ==
    /\ Len(list) = Len(arm.collections_all) + 1
    /\ list[1].name = "Unassigned" /\ list[1].index = -1
    /\ \A k \in 1..Len(arm.collections_all) :
          list[k + 1].index = k - 1 /\ list[k + 1].name = arm.collections_all[k]

\* The selection of new is the selection of old carried over: the entry
\* with index -1 keeps its state, a collection is selected exactly when
\* a selected entry of old other than that one had its name; with nothing
\* selected in old, everything is selected in new.
SelectionPreserved(old, new) ==
    IF \E i \in 1..Len(old) : old[i].is_selected
    THEN /\ \A i \in 1..Len(old) :
               old[i].index = -1 => new[1].is_selected = old[i].is_selected
         /\ \A k \in 2..Len(new) :
               new[k].is_selected <=>
                   \E i \in 1..Len(old) :
                       old[i].index # -1 /\ old[i].is_selected /\ old[i].name = new[k].name
    ELSE \A k \in 1..Len(new) : new[k].is_selected

\* C11: every call of populate_bone_collection_list on an armature leaves
\* the list as one 'Unassigned' entry (index -1) followed by one entry per
\* bone collection of the armature in collection-index order, and carries
\* the selection over: if an entry was selected before the call, the
\* 'Unassigned' entry (the one with index -1, whatever the names) keeps its
\* state and a collection is selected exactly when a selected real entry
\* had its name; if none was selected, every entry is selected.
C11_PopulatePreservesSelection ==
    [][PopulateStep =>
          /\ ListMirrorsArmature(bone_collection_list', armature)
          /\ SelectionPreserved(bone_collection_list, bone_collection_list')]_vars

\* After a call, the 'Unassigned' entry is selected and a collection that
\* is itself named 'Unassigned' is not, next to another deselected one:
\* the selection was carried over by index, not by name.
C11_Witness ==
    /\ call = "populate_bone_collection_list" /\ pc = "populated"
    /\ Len(bone_collection_list) = 3
    /\ bone_collection_list[1].is_selected
    /\ \E k \in 2..3 :
          bone_collection_list[k].name = "Unassigned" /\ ~bone_collection_list[k].is_selected
    /\ \E k \in 2..3 :
          bone_collection_list[k].name # "Unassigned" /\ bone_collection_list[k].is_selected

----------------------------------------------------------------------------
(* Termination of get_export_bone_names and of its diagnostic.             *)

\* The instigator recorded for bone b, None if none is.
RecordedInstigator(b) ==
    LET i == CHOOSE j \in 1..Len(bone_indices) : bone_indices[j][1] = b
    IN  bone_indices[i][2]

\* A printed line <<root_bone_name, bone_name>> ends the walk from the root
\* bone at a bone with no recorded instigator, and that bone is a seed that
\* is the root bone itself or one of its descendants.
LineIsSound(line) ==
    LET root == IndexOfName(line[1])
        last == IndexOfName(line[2])
    IN  /\ root \in DictKeys(bone_indices) /\ last \in DictKeys(bone_indices)
        /\ RecordedInstigator(last) = None
        /\ last \in SeedBones
        /\ root \in {last} \cup Ancestors(armature, last)

\* While the diagnostic runs and after it, the lines printed so far are
\* those of the first root bones, one each, and each is sound; no lookup of
\* a bone name fails; the error is raised with a line for every root bone.
DiagnosticSound ==
    (call = "get_export_bone_names" /\ pc \in {"diagnose", "done"}) =>
        /\ result.kind # "ValueError"
        /\ Len(console) = root_cursor
        /\ Len(console) <= Len(root_bone_names)
        /\ \A i \in 1..Len(console) :
              console[i][1] = root_bone_names[i] /\ LineIsSound(console[i])
        /\ RaisedMultipleRoots =>
              Len(console) = Len(root_bone_names) /\ Len(root_bone_names) > 1

\* C12: for every finite parent-before-child hierarchy and every filter the
\* call of get_export_bone_names ends (the worklist closure terminates, and
\* so does every walk of the multiple-roots diagnostic), by returning or by
\* the multiple-roots error; when the diagnostic runs, the walk from each
\* offending root bone along the recorded instigators ends at a bone whose
\* recorded instigator is None, and that bone is a seed that is the root
\* bone itself or a descendant of it.
C12_ClosureAndDiagnosticTerminate ==
    /\ []DiagnosticSound
    /\ (call = "get_export_bone_names") ~>
           (SelectDone /\ result.kind \in {"return", "RuntimeError"})

\* The error was raised after a walk that left its root bone: a root bone
\* that is no seed was traced to a seed below it.
C12_Witness ==
    /\ RaisedMultipleRoots
    /\ \E i \in 1..Len(console) :
          /\ console[i][1] # console[i][2]
          /\ IndexOfName(console[i][1]) \notin SeedBones

----------------------------------------------------------------------------
(* Properties of the export material list.                                 *)

\* material_list_index refers to an entry of a list that is not empty.
IndexRefersToEntry ==
    material_list # <<>> =>
        material_list_index \in 0..(Len(material_list) - 1)

\* A step that is the execute of one of the two move operators.
MoveStep == call = "material_list" /\ pc' \in {"moved up", "moved down"}

\* The step swaps the selected entry with the neighbour the index moves to:
\* the index points at the same material after it.
SwapsWithNeighbour ==
    LET i == material_list_index
        j == material_list_index'
    IN  /\ i \in 0..(Len(material_list) - 1) /\ j \in 0..(Len(material_list) - 1)
        /\ Len(material_list') = Len(material_list)
        /\ At(material_list', j) = At(material_list, i)
        /\ At(material_list', i) = At(material_list, j)
        /\ \A k \in 0..(Len(material_list) - 1) \ {i, j} :
              At(material_list', k) = At(material_list, k)

\* C13 (refuted): after any sequence of populate_material_list, move-up and
\* move-down operations, each move only when its poll is true,
\* material_list_index refers to an existing entry whenever the list is not
\* empty (0 <= material_list_index <= len(material_list) - 1), and each move
\* swaps the selected entry with its neighbour, the index still pointing at
\* the same material.
C13_IndexValidAndMovesSwap ==
    /\ [](call = "material_list" => IndexRefersToEntry)
    /\ [][MoveStep => SwapsWithNeighbour]_vars

====
